---- MODULE Spec2Model ----
(***************************************************************************)
(* go-parallel: the range scheduler For in its three revisions, the        *)
(* goroutines it starts, the WaitGroup barrier and the task channel, the   *)
(* entry points All and ForEach that call For, and the combinator Race.    *)
(*                                                                         *)
(*   rev "r1"  src/parallel.go 1..227       For with mixinOptions, a pool  *)
(*                                          in every call, and lastError   *)
(*   rev "r2"  src/unnamed/part_005         forLoopWithoutOption /         *)
(*                                          forLoopWithOption              *)
(*   rev "r3"  src/parallel.go 229..527     opt[0], callFunc,              *)
(*                                          forLoopWith(out)TaskCountOption*)
(***************************************************************************)
EXTENDS Integers, Sequences, FiniteSets

\* ---------------------------------------------------------------- bounds
MaxLen == 2        \* longest range, collection or task list
MaxTaskCount == 2  \* largest TaskCount an option carries
MaxOpts == 2       \* most TaskOptions values passed to one call

\* ---------------------------------------------------------------- values
Revisions == {"r1", "r2", "r3"}
Begins == {0, 1}
Handlers == {"h1", "h2"}
NilHandle == "nil"
TaskCounts == (-1)..MaxTaskCount

\* type TaskOptions struct { TaskCount int; PanicHandle func(err interface{}) }
TaskOptions == [TaskCount : TaskCounts, PanicHandle : Handlers \cup {NilHandle}]

\* var emptyOption = &TaskOptions{}   (the zero value of the struct)
emptyOption == [TaskCount |-> 0, PanicHandle |-> NilHandle]

Max(a, b) == IF a >= b THEN a ELSE b
MaxG == Max(MaxLen, MaxTaskCount)
Goroutines == 1..MaxG
Indices == (-1)..(MaxLen + 1)

\* An interface{} value is two words: the dynamic type and the data pointer.
\* The nil interface has both words nil (the empty word <<>>).
NilWord == <<>>
NilValue == [typ |-> NilWord, dat |-> NilWord]
\* The value f(i) raises when unit i panics: each unit raises its own value.
PanicValue(x) == [typ |-> <<"unit", x>>, dat |-> <<"unit", x>>]
\* The string a panic(...) of the library itself, or of reflect, carries.
Message(m) == [typ |-> <<"msg", "string">>, dat |-> <<"msg", m>>]

\* The collection handed to ForEach and the shape of its callback:
\* argc = NumIn(), in0ok = index / key is assignable to In(0),
\* in1ok = element / value is assignable to In(1).
Kinds == {"slice", "array", "map", "other"}
Callbacks == {c \in [argc : 0..3, in0ok : BOOLEAN, in1ok : BOOLEAN] :
                 /\ (c.argc \in {0, 3} => c.in0ok /\ c.in1ok)
                 /\ (c.argc = 1 => c.in1ok)}
NoCallback == [argc |-> 0, in0ok |-> TRUE, in1ok |-> TRUE]

\* reflect.Value.Call panics when an argument is not assignable to its parameter.
callMismatch(c) == (c.argc >= 1 /\ ~c.in0ok) \/ (c.argc = 2 /\ ~c.in1ok)

VARIABLES
    api,        \* the entry point called: "For" | "All" | "ForEach" | "Race"
    rev,        \* which revision of the package runs
    coll,       \* ForEach: the kind of the collection
    n,          \* len(collection), len(functions)
    cb,         \* ForEach: the callback's shape
    panics,     \* the indices whose user function panics
    begin, end, \* For's range
    opt,        \* the variadic opt ...TaskOptions
    ctxDone,    \* Race, ForWithContext: the call's own cancel() has run
    ctxErr,     \* ForWithContext: the caller's ctx.Err(), "nil" | "deadline" | "canceled"
    outer,      \* ForWithContext: the caller's position, "none" | "wait" | "returned"
    pc,         \* the caller's position in For
    option,     \* the option For settled on
    taskChan,   \* "none" | "open" | "closed"
    wgMade,     \* the sync.WaitGroup exists
    wg,         \* its counter
    i,          \* the dispatch loop's index
    spawned,    \* worker goroutines created so far
    g,          \* goroutine -> [st, idx]
    invoked,    \* index -> number of invocations of f on it
    received,   \* ForEach: index -> the argument lists the callback was called with
    handled,    \* index -> the <<handler, value>> calls made for that unit
    lastError,  \* rev r1: var lastError interface{}
    raised      \* the value For panicked with to its caller

call == <<api, rev, coll, n, cb, panics>>
ctx == <<ctxErr, outer>>
inputs == <<call, begin, end, opt, ctxDone>>
vars == <<api, rev, coll, n, cb, panics, begin, end, opt, ctxDone, ctxErr, outer,
          pc, option, taskChan, wgMade, wg, i, spawned, g, invoked, received,
          handled, lastError, raised>>

length == end - begin
Range == begin..(end - 1)
NoUnit == begin - 1

\* ------------------------------------------------------------ options
\* func mixinOptions(opt []TaskOptions) (o TaskOptions)
RECURSIVE mixinFrom(_, _, _)
mixinFrom(o, s, k) ==
    IF k > Len(s) THEN o
    ELSE LET e == s[k]
             o1 == IF e.TaskCount > 0 THEN [o EXCEPT !.TaskCount = e.TaskCount] ELSE o
             o2 == IF e.PanicHandle # NilHandle
                   THEN [o1 EXCEPT !.PanicHandle = e.PanicHandle] ELSE o1
         IN  mixinFrom(o2, s, k + 1)

mixinOptions(s) == mixinFrom(emptyOption, s, 1)

\* Taking the last option instead of the first.
lastOption(s) == IF Len(s) > 0 THEN s[Len(s)] ELSE emptyOption

\* option := emptyOption; if len(opt) > 0 { option = &opt[0] }
firstOption(s) == IF Len(s) > 0 THEN s[1] ELSE emptyOption

\* The option a revision settles on.
chooseOption(r, s) ==
    IF r = "r3" THEN firstOption(s) ELSE mixinOptions(s)

\* Whether the call goes through the worker pool and the task channel.
usesPool(r, s, o) ==
    CASE r = "r1" -> TRUE
      [] r = "r2" -> Len(s) # 0
      [] OTHER    -> o.TaskCount # 0

\* A pool that ignores TaskCount and starts one worker per index.
workerCountPerIndex(r, o, len) == len

\* The number of worker goroutines the pool is given.
workerCount(r, o, len) ==
    IF r = "r3"
    THEN Max(o.TaskCount, 0)
    ELSE IF o.TaskCount > 0 THEN o.TaskCount ELSE len

\* ------------------------------------------------------------ Init
Idle == [st |-> "none", idx |-> NoUnit]

OptLists(m) == UNION {[1..k -> TaskOptions] : k \in 0..m}

\* The state before the call: nothing of the scheduler exists yet.
InitState ==
    /\ option = emptyOption
    /\ ctxDone = FALSE
    /\ ctxErr = "nil"
    /\ outer = "none"
    /\ taskChan = "none"
    /\ wgMade = FALSE
    /\ wg = 0
    /\ i = begin
    /\ spawned = 0
    /\ g = [w \in Goroutines |-> Idle]
    /\ invoked = [x \in Indices |-> 0]
    /\ received = [x \in Indices |-> <<>>]
    /\ handled = [x \in Indices |-> <<>>]
    /\ lastError = NilValue
    /\ raised = NilValue

\* A call For(begin, end, f, opt...) with the option lists s.
InitFor(s) ==
    /\ api = "For"
    /\ pc = "call"
    /\ rev \in Revisions
    /\ coll = "other" /\ n = 0 /\ cb = NoCallback
    /\ begin \in Begins
    /\ end \in (begin - 1)..(begin + MaxLen)
    /\ opt \in s
    /\ panics \in SUBSET Range

\* A call All(functions...): only the last revision has All.
InitAll ==
    /\ api = "All"
    /\ pc = "All"
    /\ rev = "r3"
    /\ coll = "other" /\ cb = NoCallback
    /\ n \in 0..MaxLen
    /\ begin = 0 /\ end = 0 /\ opt = <<>>
    /\ panics \in SUBSET (0..(n - 1))

\* A call ForEach(collection, f, opt...). panics are the indices on which the
\* callback itself panics; a callback that reflect's Call cannot call is never
\* entered, so it has none.
InitForEach ==
    /\ api = "ForEach"
    /\ pc = "ForEach"
    /\ rev \in Revisions
    /\ coll \in Kinds
    /\ cb \in Callbacks
    /\ n \in IF coll = "other" THEN {0} ELSE 0..MaxLen
    /\ begin = 0 /\ end = 0
    /\ opt \in {s \in OptLists(1) : \A k \in DOMAIN s : s[k].PanicHandle # "h2"}
    /\ panics \in IF callMismatch(cb) THEN {{}} ELSE SUBSET (0..(n - 1))

Init ==
    /\ \/ InitFor(OptLists(1))
       \/ InitAll
       \/ InitForEach
    /\ InitState

\* ------------------------------------------------------------ All, ForEach
\* A range that stops one short of the last function.
allEndShort(len) == len - 1

\* The end of the range All hands to For: len(functions).
allEnd(len) == len

\* All: For(0, len(functions), func(i int) { functions[i]() })
All ==
    /\ pc = "All"
    /\ begin' = 0
    /\ end' = allEnd(n)
    /\ opt' = <<>>
    /\ pc' = "call"
    /\ UNCHANGED <<call, ctx, ctxDone, option, taskChan, wgMade, wg, i, spawned, g,
                   invoked, received, handled, lastError, raised>>

\* ForEach: switch reflect.TypeOf(collection).Kind()
ForEach ==
    /\ pc = "ForEach"
    /\ pc' = CASE coll \in {"slice", "array"} -> "ForEachSlice"
               [] coll = "map"                -> "ForEachMap"
               [] OTHER                       -> "returned"
    /\ UNCHANGED <<inputs, ctx, option, taskChan, wgMade, wg, i, spawned, g, invoked, received,
                   handled, lastError, raised>>

\* A ForEachSlice that leaves the parameter types to reflect's Call.
sliceOutcomeUnchecked(r, len, c) == IF c.argc <= 2 THEN "For" ELSE "return"

\* What ForEachSlice does with a slice of length len and callback c:
\* "return", a panic with a message, or the call For(0, len, ...).
sliceOutcome(r, len, c) ==
    IF r = "r1"
    THEN IF c.argc <= 2 THEN "For" ELSE "return"
    ELSE IF len = 0 THEN "return"
    ELSE CASE c.argc = 2 -> IF ~c.in0ok THEN "first argument is not an int"
                            ELSE IF ~c.in1ok THEN "slice value type"
                            ELSE "For"
           [] c.argc = 1 -> IF ~c.in0ok THEN "first argument is not an int" ELSE "For"
           [] c.argc = 0 -> "For"
           [] OTHER      -> "return"

\* What ForEachMap does with a map of len entries and callback c.
mapOutcome(r, len, c) ==
    IF r = "r1"
    THEN IF c.argc <= 2 THEN "For" ELSE "return"
    ELSE IF len = 0 THEN "return"
    ELSE CASE c.argc = 2 -> IF ~c.in0ok THEN "map keyType"
                            ELSE IF ~c.in1ok THEN "map valueType"
                            ELSE "For"
           [] c.argc = 1 -> IF ~c.in0ok THEN "map key" ELSE "For"
           [] c.argc = 0 -> "For"
           [] OTHER      -> "return"

ForEachDo(out) ==
    /\ begin' = 0
    /\ opt' = opt
    /\ CASE out = "For"    -> end' = n /\ pc' = "call" /\ raised' = raised
         [] out = "return" -> end' = end /\ pc' = "returned" /\ raised' = raised
         [] OTHER          -> end' = end /\ pc' = "panicked" /\ raised' = Message(out)
    /\ UNCHANGED <<call, ctx, ctxDone, option, taskChan, wgMade, wg, i, spawned, g,
                   invoked, received, handled, lastError>>

ForEachSlice ==
    /\ pc = "ForEachSlice"
    /\ ForEachDo(sliceOutcome(rev, n, cb))

ForEachMap ==
    /\ pc = "ForEachMap"
    /\ ForEachDo(mapOutcome(rev, n, cb))

\* The values ForEach works on: the index i, slice.Index(i), mapKeys[i] and
\* map.MapIndex(key).
IntArg(x) == <<"int", x>>
ElemArg(x) == <<"elem", x>>
KeyArg(x) == <<"key", x>>
ValueArg(k) == <<"value", k[2]>>

\* A call that hands the callback the key where the value belongs.
callArgsKeyTwice(kind, c, x) ==
    LET first == IF kind = "map" THEN KeyArg(x) ELSE IntArg(x)
    IN  CASE c.argc = 2 -> <<first, first>>
          [] c.argc = 1 -> <<first>>
          [] OTHER      -> <<>>

\* reflectionFunc.Call([]reflect.Value{...}) in the function ForEachSlice /
\* ForEachMap hands to For, on index x.
callArgs(kind, c, x) ==
    LET first == IF kind = "map" THEN KeyArg(x) ELSE IntArg(x)
        second == IF kind = "map" THEN ValueArg(KeyArg(x)) ELSE ElemArg(x)
    IN  CASE c.argc = 2 -> <<first, second>>
          [] c.argc = 1 -> <<first>>
          [] OTHER      -> <<>>

\* Whether For's f panics on index x, and with which value.
unitPanics(x) == x \in panics \/ (api = "ForEach" /\ callMismatch(cb))
unitValue(x) == IF x \in panics THEN PanicValue(x) ELSE Message("reflect: Call")

\* ------------------------------------------------------------ the caller
\* A guard that lets the empty range through.
nonEmptyOrZero(len) == len >= 0

\* length := end - begin; if length > 0 { ... }
nonEmpty(len) == len > 0

\* For: length <= 0 is a no-op; otherwise settle the option and pick the loop.
ForEntry ==
    /\ pc = "call"
    /\ IF nonEmpty(length)
       THEN LET o == chooseOption(rev, opt)
            IN  /\ option' = o
                /\ IF usesPool(rev, opt, o)
                   THEN /\ taskChan' = "open"
                        /\ pc' = "spawn"
                   ELSE /\ taskChan' = taskChan
                        /\ pc' = "add"
       ELSE /\ pc' = "returned"
            /\ UNCHANGED <<option, taskChan>>
    /\ UNCHANGED <<inputs, ctx, wgMade, wg, i, spawned, g, invoked, received, handled,
                   lastError, raised>>

\* for i := 0; i < count; i++ { go func() { for t := range c { t() } }() }
SpawnWorker ==
    /\ pc = "spawn"
    /\ spawned < workerCount(rev, option, length)
    /\ spawned' = spawned + 1
    /\ g' = [g EXCEPT ![spawned + 1] = [st |-> "recv", idx |-> NoUnit]]
    /\ UNCHANGED <<inputs, ctx, pc, option, taskChan, wgMade, wg, i, invoked, received, handled,
                   lastError, raised>>

SpawnEnd ==
    /\ pc = "spawn"
    /\ spawned >= workerCount(rev, option, length)
    /\ pc' = "add"
    /\ UNCHANGED <<inputs, ctx, option, taskChan, wgMade, wg, i, spawned, g, invoked, received,
                   handled, lastError, raised>>

\* A barrier that counts the bounds of the range, both included.
barrierSizeInclusive(b, e) == e - b + 1

\* wg.Add(end - begin)
barrierSize(b, e) == e - b

\* wg := sync.WaitGroup{}; wg.Add(end - begin)
WgAdd ==
    /\ pc = "add"
    /\ wgMade' = TRUE
    /\ wg' = barrierSize(begin, end)
    /\ i' = begin
    /\ pc' = "loop"
    /\ UNCHANGED <<inputs, ctx, option, taskChan, spawned, g, invoked, received, handled,
                   lastError, raised>>

\* A loop that counts from zero instead of from begin.
loopIndexFromZero(k) == k - begin

\* A loop that hands the indices out from end - 1 down to begin.
loopIndexDescending(k) == end - 1 - (k - begin)

\* The index the dispatch loop hands out at position k (it := i).
loopIndex(k) == k

\* taskChan <- func() {...}: a synchronous hand-off to a worker blocked in range.
Send(w) ==
    /\ pc = "loop"
    /\ taskChan = "open"
    /\ i < end
    /\ g[w].st = "recv"
    /\ g' = [g EXCEPT ![w] = [st |-> "task", idx |-> loopIndex(i)]]
    /\ i' = i + 1
    /\ UNCHANGED <<inputs, ctx, pc, option, taskChan, wgMade, wg, spawned, invoked, received,
                   handled, lastError, raised>>

\* callFunc(i, f, &wg, opt) without go: the body is entered in the caller's step.
goStartInline == "f"

\* go callFunc(...): the new goroutine is runnable, f not yet entered.
goStart == "task"

\* go callFunc(i, f, &wg, opt): one goroutine per index.
Go ==
    /\ pc = "loop"
    /\ taskChan = "none"
    /\ i < end
    /\ g' = [g EXCEPT ![i - begin + 1] = [st |-> goStart, idx |-> loopIndex(i)]]
    /\ i' = i + 1
    /\ UNCHANGED <<inputs, ctx, pc, option, taskChan, wgMade, wg, spawned, invoked, received,
                   handled, lastError, raised>>

LoopEnd ==
    /\ pc = "loop"
    /\ i >= end
    /\ pc' = "wait"
    /\ UNCHANGED <<inputs, ctx, option, taskChan, wgMade, wg, i, spawned, g, invoked, received,
                   handled, lastError, raised>>

\* The re-raise of the first revision kept in the later ones.
recordsLastErrorAlways(r) == TRUE

\* Only the first revision declares var lastError and panics with it.
recordsLastError(r) == r = "r1"

\* A barrier that lets the caller go while one unit is still counted.
waitReleasedEarly(c) == c <= 1

\* wg.Wait() returns when the counter is zero.
waitReleased(c) == c = 0

\* wg.Wait(); rev r1: if lastError != nil { panic(lastError) }.
\* The deferred close(taskChan) runs on the way out, also when panicking.
Wait ==
    /\ pc = "wait"
    /\ waitReleased(wg)
    /\ IF recordsLastError(rev) /\ lastError.typ # NilWord
       THEN /\ raised' = lastError
            /\ pc' = IF taskChan = "open" THEN "closeP" ELSE "panicked"
       ELSE /\ raised' = raised
            /\ pc' = IF taskChan = "open" THEN "close" ELSE "returned"
    /\ UNCHANGED <<inputs, ctx, option, taskChan, wgMade, wg, i, spawned, g, invoked, received,
                   handled, lastError>>

\* defer close(taskChan)
Close ==
    /\ pc \in {"close", "closeP"}
    /\ taskChan' = "closed"
    /\ pc' = IF pc = "close" THEN "returned" ELSE "panicked"
    /\ UNCHANGED <<inputs, ctx, option, wgMade, wg, i, spawned, g, invoked, received, handled,
                   lastError, raised>>

\* ------------------------------------------------------------ the units
\* t() / callFunc: the goroutine enters f(it).
StartF(w) ==
    /\ g[w].st = "task"
    /\ g' = [g EXCEPT ![w].st = "f"]
    /\ invoked' = [invoked EXCEPT ![g[w].idx] = @ + 1]
    /\ received' = IF api = "ForEach" /\ ~callMismatch(cb)
                   THEN [received EXCEPT
                            ![g[w].idx] = Append(@, callArgs(coll, cb, g[w].idx))]
                   ELSE received
    /\ UNCHANGED <<inputs, ctx, pc, option, taskChan, wgMade, wg, i, spawned, handled,
                   lastError, raised>>

\* f(it) returns: recover() yields nil, the deferred wg.Done() is next.
ReturnF(w) ==
    /\ g[w].st = "f"
    /\ ~unitPanics(g[w].idx)
    /\ g' = [g EXCEPT ![w].st = "done"]
    /\ UNCHANGED <<inputs, ctx, pc, option, taskChan, wgMade, wg, i, spawned, invoked, received,
                   handled, lastError, raised>>

\* f(it) panics: the deferred func runs with recover() # nil.
PanicF(w) ==
    /\ g[w].st = "f"
    /\ unitPanics(g[w].idx)
    /\ g' = [g EXCEPT ![w].st = "recover"]
    /\ UNCHANGED <<inputs, ctx, pc, option, taskChan, wgMade, wg, i, spawned, invoked, received,
                   handled, lastError, raised>>

\* The handler the deferred func calls for a recovered value, or NilHandle.
\* rev r2 without options (forLoopWithoutOption) has no handler to call.
\* A recover that never looks at opt.PanicHandle.
panicHandleNone(r, s, o) == NilHandle

\* The handler the deferred recover calls, if any.
panicHandle(r, s, o) ==
    IF r = "r2" /\ Len(s) = 0 THEN NilHandle ELSE o.PanicHandle

\* A second recover() in the same deferred func yields nil.
recoveredTwice(x) == NilValue

\* The value the handler is given for unit x (r := recover()).
recovered(x) == unitValue(x)

\* The deferred func after a panic: call the handler, or (rev r1) start the
\* store to lastError, or drop the value.
Recover(w) ==
    /\ g[w].st = "recover"
    /\ LET h == panicHandle(rev, opt, option)
           x == g[w].idx
       IN  IF h # NilHandle
           THEN /\ handled' = [handled EXCEPT ![x] = Append(@, <<h, recovered(x)>>)]
                /\ g' = [g EXCEPT ![w].st = "handler"]
                /\ UNCHANGED lastError
           ELSE IF recordsLastError(rev)
           THEN /\ lastError' = [lastError EXCEPT !.typ = recovered(x).typ]
                /\ g' = [g EXCEPT ![w].st = "store"]
                /\ UNCHANGED handled
           ELSE /\ g' = [g EXCEPT ![w].st = "done"]
                /\ UNCHANGED <<handled, lastError>>
    /\ UNCHANGED <<inputs, ctx, pc, option, taskChan, wgMade, wg, i, spawned, invoked,
                   received, raised>>

\* opt.PanicHandle(r) returns.
HandlerReturn(w) ==
    /\ g[w].st = "handler"
    /\ g' = [g EXCEPT ![w].st = "done"]
    /\ UNCHANGED <<inputs, ctx, pc, option, taskChan, wgMade, wg, i, spawned, invoked, received,
                   handled, lastError, raised>>

\* lastError = e: the second word of the unsynchronized two-word store.
StoreData(w) ==
    /\ g[w].st = "store"
    /\ lastError' = [lastError EXCEPT !.dat = recovered(g[w].idx).dat]
    /\ g' = [g EXCEPT ![w].st = "done"]
    /\ UNCHANGED <<inputs, ctx, pc, option, taskChan, wgMade, wg, i, spawned, invoked, received,
                   handled, raised>>

\* A worker that takes one task and ends: t := <-c; t().
afterTaskOneShot(ch) == "exit"

\* Where a goroutine goes after its task: a pool worker back to
\* for t := range c, a goroutine started for one index to its end.
afterTask(ch) == IF ch = "none" THEN "exit" ELSE "recv"

\* defer wg.Done(); a pool worker then goes back to its range loop, a
\* goroutine started for one index ends.
Done(w) ==
    /\ g[w].st = "done"
    /\ wg' = wg - 1
    /\ g' = [g EXCEPT ![w] = [st |-> afterTask(taskChan), idx |-> NoUnit]]
    /\ UNCHANGED <<inputs, ctx, pc, option, taskChan, wgMade, i, spawned, invoked, received,
                   handled, lastError, raised>>

\* A channel that is never closed never ends the range loop.
rangeEndsNever(ch) == FALSE

\* for t := range c ends when the channel is closed (and empty).
rangeEnds(ch) == ch = "closed"

\* for t := range c ends when the channel is closed.
WorkerExit(w) ==
    /\ g[w].st = "recv"
    /\ rangeEnds(taskChan)
    /\ g' = [g EXCEPT ![w].st = "exit"]
    /\ UNCHANGED <<inputs, ctx, pc, option, taskChan, wgMade, wg, i, spawned, invoked, received,
                   handled, lastError, raised>>

NextFor ==
    \/ ForEntry
    \/ SpawnWorker
    \/ SpawnEnd
    \/ WgAdd
    \/ \E w \in Goroutines : Send(w)
    \/ Go
    \/ LoopEnd
    \/ Wait
    \/ Close
    \/ \E w \in Goroutines : StartF(w)
    \/ \E w \in Goroutines : ReturnF(w)
    \/ \E w \in Goroutines : PanicF(w)
    \/ \E w \in Goroutines : Recover(w)
    \/ \E w \in Goroutines : HandlerReturn(w)
    \/ \E w \in Goroutines : StoreData(w)
    \/ \E w \in Goroutines : Done(w)
    \/ \E w \in Goroutines : WorkerExit(w)

Next ==
    \/ All
    \/ ForEach
    \/ ForEachSlice
    \/ ForEachMap
    \/ NextFor

Spec == Init /\ [][Next]_vars

\* The steps of the calling goroutine and those of goroutine w.
ForCaller ==
    \/ ForEntry \/ SpawnWorker \/ SpawnEnd \/ WgAdd
    \/ (\E w \in Goroutines : Send(w))
    \/ Go \/ LoopEnd \/ Wait \/ Close
ForStep(w) ==
    \/ StartF(w) \/ ReturnF(w) \/ PanicF(w) \/ Recover(w)
    \/ HandlerReturn(w) \/ StoreData(w) \/ Done(w) \/ WorkerExit(w)

\* Calls of For in bounded mode: a non-empty range and one option with
\* TaskCount >= 1, or no option in the first revision, whose For always goes
\* through makeExecutor.
PoolOptions == {o \in TaskOptions : o.TaskCount >= 1 /\ o.PanicHandle # "h2"}

InitPool ==
    /\ api = "For"
    /\ pc = "call"
    /\ rev \in Revisions
    /\ coll = "other" /\ n = 0 /\ cb = NoCallback
    /\ begin \in Begins
    /\ end \in (begin + 1)..(begin + MaxLen)
    /\ opt \in [1..1 -> PoolOptions] \cup (IF rev = "r1" THEN {<<>>} ELSE {})
    /\ panics \in SUBSET Range
    /\ InitState

NextPool ==
    \/ ForEntry
    \/ SpawnWorker
    \/ SpawnEnd
    \/ WgAdd
    \/ \E w \in Goroutines : Send(w)
    \/ LoopEnd
    \/ Wait
    \/ Close
    \/ \E w \in Goroutines : StartF(w)
    \/ \E w \in Goroutines : ReturnF(w)
    \/ \E w \in Goroutines : PanicF(w)
    \/ \E w \in Goroutines : Recover(w)
    \/ \E w \in Goroutines : HandlerReturn(w)
    \/ \E w \in Goroutines : StoreData(w)
    \/ \E w \in Goroutines : Done(w)
    \/ \E w \in Goroutines : WorkerExit(w)

SpecPool == InitPool /\ [][NextPool]_vars

\* Fair scheduling of goroutines whose f and PanicHandle terminate.
FairPool ==
    /\ SpecPool
    /\ WF_vars(ForCaller)
    /\ \A w \in Goroutines : WF_vars(ForStep(w))

\* ------------------------------------------------------------ options spec
\* Calls of For over one index with up to MaxOpts options.
InitOptions ==
    /\ api = "For"
    /\ pc = "call"
    /\ rev \in Revisions
    /\ coll = "other" /\ n = 0 /\ cb = NoCallback
    /\ begin = 0 /\ end = 1
    /\ opt \in OptLists(MaxOpts)
    /\ panics \in SUBSET Range
    /\ InitState

SpecOptions == InitOptions /\ [][NextFor]_vars

\* ------------------------------------------------------------ Race
\* A call Race(functions...) with n functions; goroutine k runs functions[k-1].
InitRace ==
    /\ api = "Race"
    /\ pc = "Race"
    /\ rev \in {"r2", "r3"}
    /\ coll = "other" /\ cb = NoCallback
    /\ n \in 0..MaxLen
    /\ begin = 0 /\ end = 0 /\ opt = <<>>
    /\ panics \in SUBSET (0..(n - 1))
    /\ InitState

\* ctx, cancel := context.WithCancel(context.Background()); defer cancel()
RaceEntry ==
    /\ pc = "Race"
    /\ ctxDone' = FALSE
    /\ i' = 0
    /\ pc' = "raceLoop"
    /\ UNCHANGED <<call, ctx, begin, end, opt, option, taskChan, wgMade, wg, spawned, g,
                   invoked, received, handled, lastError, raised>>

\* A closure that reads the loop variable instead of taking e as its argument
\* sees the last element once the loop has moved on.
raceTaskCaptured(k) == n - 1

\* go func(f TaskFunc) {...}(e): the k-th goroutine is handed the k-th function.
raceTask(k) == k

\* for _, e := range functions { go func(f TaskFunc) {...}(e) }
RaceGo ==
    /\ pc = "raceLoop"
    /\ i < n
    /\ g' = [g EXCEPT ![i + 1] = [st |-> "task", idx |-> raceTask(i)]]
    /\ i' = i + 1
    /\ UNCHANGED <<inputs, ctx, pc, option, taskChan, wgMade, wg, spawned, invoked, received,
                   handled, lastError, raised>>

RaceLoopEnd ==
    /\ pc = "raceLoop"
    /\ i >= n
    /\ pc' = "raceWait"
    /\ UNCHANGED <<inputs, ctx, option, taskChan, wgMade, wg, i, spawned, g, invoked, received,
                   handled, lastError, raised>>

\* A receive with a default branch does not wait.
raceReleasedAtOnce(d) == TRUE

\* <-ctx.Done() is passed once the context is cancelled.
raceReleased(d) == d

\* <-ctx.Done()
RaceWait ==
    /\ pc = "raceWait"
    /\ raceReleased(ctxDone)
    /\ pc' = "raceCancel"
    /\ UNCHANGED <<inputs, ctx, option, taskChan, wgMade, wg, i, spawned, g, invoked, received,
                   handled, lastError, raised>>

\* Race's own deferred cancel(), on its way out.
RaceReturn ==
    /\ pc = "raceCancel"
    /\ ctxDone' = TRUE
    /\ pc' = "returned"
    /\ UNCHANGED <<call, ctx, begin, end, opt, option, taskChan, wgMade, wg, i, spawned,
                   g, invoked, received, handled, lastError, raised>>

\* The goroutine enters f().
RaceStartF(k) ==
    /\ g[k].st = "task"
    /\ g' = [g EXCEPT ![k].st = "f"]
    /\ invoked' = [invoked EXCEPT ![g[k].idx] = @ + 1]
    /\ received' = received
    /\ UNCHANGED <<inputs, ctx, pc, option, taskChan, wgMade, wg, i, spawned, handled,
                   lastError, raised>>

\* f() returns: the deferred recover() yields nil, the deferred cancel() is next.
RaceReturnF(k) ==
    /\ g[k].st = "f"
    /\ g[k].idx \notin panics
    /\ g' = [g EXCEPT ![k].st = "cancel"]
    /\ UNCHANGED <<inputs, ctx, pc, option, taskChan, wgMade, wg, i, spawned, invoked, received,
                   handled, lastError, raised>>

\* f() panics: the deferred func runs.
RacePanicF(k) ==
    /\ g[k].st = "f"
    /\ g[k].idx \in panics
    /\ g' = [g EXCEPT ![k].st = "recover"]
    /\ UNCHANGED <<inputs, ctx, pc, option, taskChan, wgMade, wg, i, spawned, invoked, received,
                   handled, lastError, raised>>

\* A cancel() that is not deferred is skipped by a panicking task.
afterRecoverNoCancel == "exit"

\* The goroutine's state after the deferred recover() took the panic
\* (defer cancel() was registered first, so it still runs).
afterRecover == "cancel"

\* A deferred function that does not call recover() leaves the panic going.
stillPanickingAll(x) == PanicValue(x)

\* What is left of the panic of task x after defer func() { recover() }().
stillPanicking(x) == NilValue

\* defer func() { recover() }(): the value is dropped, the deferred cancel() is
\* next. A panic that nothing recovers ends the program with that value.
RaceRecover(k) ==
    /\ g[k].st = "recover"
    /\ g' = [g EXCEPT ![k].st = afterRecover]
    /\ raised' = stillPanicking(g[k].idx)
    /\ pc' = IF stillPanicking(g[k].idx) = NilValue THEN pc ELSE "panicked"
    /\ UNCHANGED <<inputs, ctx, option, taskChan, wgMade, wg, i, spawned, invoked, received,
                   handled, lastError>>

\* defer cancel(): closes ctx.Done(); cancelling twice changes nothing.
RaceCancel(k) ==
    /\ g[k].st = "cancel"
    /\ ctxDone' = TRUE
    /\ g' = [g EXCEPT ![k] = [st |-> "exit", idx |-> NoUnit]]
    /\ UNCHANGED <<call, ctx, begin, end, opt, pc, option, taskChan, wgMade, wg, i,
                   spawned, invoked, received, handled, lastError, raised>>

\* The steps of goroutine k that the Go scheduler runs once they are runnable:
\* everything but the body of f(), whose duration is the task's own.
RaceStep(k) == RaceStartF(k) \/ RaceRecover(k) \/ RaceCancel(k)
RaceCaller == RaceEntry \/ RaceGo \/ RaceLoopEnd \/ RaceWait \/ RaceReturn

NextRace ==
    \/ RaceEntry
    \/ RaceGo
    \/ RaceLoopEnd
    \/ RaceWait
    \/ RaceReturn
    \/ \E k \in Goroutines : RaceStartF(k)
    \/ \E k \in Goroutines : RaceReturnF(k)
    \/ \E k \in Goroutines : RacePanicF(k)
    \/ \E k \in Goroutines : RaceRecover(k)
    \/ \E k \in Goroutines : RaceCancel(k)

SpecRace == InitRace /\ [][NextRace]_vars

\* Runnable goroutines get to run; a task body may take forever.
FairRace ==
    /\ SpecRace
    /\ WF_vars(RaceCaller)
    /\ \A k \in Goroutines : WF_vars(RaceStep(k))

\* Fair scheduling of a Race whose tasks all terminate.
RaceBody(k) == RaceReturnF(k) \/ RacePanicF(k)

FairRaceTerminating ==
    /\ FairRace
    /\ \A k \in Goroutines : WF_vars(RaceBody(k))

\* ------------------------------------------------------------ ForWithContext
\* ForWithContext(ctx, begin, end, f) and AllWithContext(ctx, functions...):
\* For / All run inside a scope derived from the caller's ctx, and the call
\* returns when that scope is done, because the range has finished or because
\* ctx was cancelled or timed out. The units are those of the last revision's
\* For without options.
CtxApis == {"ForWithContext", "AllWithContext"}

InitCtx ==
    /\ api \in CtxApis
    /\ pc = "ctx"
    /\ rev = "r3"
    /\ coll = "other" /\ cb = NoCallback
    /\ begin \in (IF api = "AllWithContext" THEN {0} ELSE Begins)
    /\ IF api = "AllWithContext"
       THEN n \in 0..MaxLen /\ end = 0 /\ panics \in SUBSET (0..(n - 1))
       ELSE n = 0 /\ end \in (begin - 1)..(begin + MaxLen) /\ panics \in SUBSET Range
    /\ opt = <<>>
    /\ InitState

\* The call derives its scope and starts For / All on a goroutine of its own.
CtxEntry ==
    /\ outer = "none"
    /\ outer' = "wait"
    /\ ctxDone' = FALSE
    /\ pc' = IF api = "AllWithContext" THEN "All" ELSE "call"
    /\ UNCHANGED <<call, ctxErr, begin, end, opt, option, taskChan, wgMade, wg, i,
                   spawned, g, invoked, received, handled, lastError, raised>>

\* The caller's context times out: its Err() becomes DeadlineExceeded.
CtxDeadline ==
    /\ ctxErr = "nil"
    /\ ctxErr' = "deadline"
    /\ UNCHANGED <<inputs, outer, pc, option, taskChan, wgMade, wg, i, spawned, g,
                   invoked, received, handled, lastError, raised>>

\* A cancel that reaches the context the scope was derived from.
cancelScopeAndParent(e) == IF e = "nil" THEN "canceled" ELSE e

\* The caller's ctx.Err() after the derived scope is cancelled: as before.
cancelScope(e) == e

\* For / All is back: the goroutine cancels the derived scope.
CtxInnerDone ==
    /\ pc = "returned"
    /\ ~ctxDone
    /\ ctxDone' = TRUE
    /\ ctxErr' = cancelScope(ctxErr)
    /\ UNCHANGED <<call, outer, begin, end, opt, pc, option, taskChan, wgMade, wg, i,
                   spawned, g, invoked, received, handled, lastError, raised>>

\* A scope made from a context of its own does not hear the caller's.
scopeFiredDetached(e, d) == d

\* The derived scope is done once it was cancelled or the caller's ctx fired.
scopeFired(e, d) == d \/ e # "nil"

\* A return that takes the running units down with it.
detachedKilled(u) == IF u.st = "f" THEN [st |-> "exit", idx |-> NoUnit] ELSE u

\* What the return does to a goroutine of the range: nothing.
detached(u) == u

\* The wait on the derived scope is over: the call returns to its caller.
CtxReturn ==
    /\ outer = "wait"
    /\ scopeFired(ctxErr, ctxDone)
    /\ outer' = "returned"
    /\ g' = [w \in Goroutines |-> detached(g[w])]
    /\ UNCHANGED <<inputs, ctxErr, pc, option, taskChan, wgMade, wg, i, spawned,
                   invoked, received, handled, lastError, raised>>

CtxCaller == CtxEntry \/ CtxReturn
CtxDispatch == All \/ ForEntry \/ WgAdd \/ Go \/ LoopEnd \/ Wait \/ CtxInnerDone
CtxStep(w) == StartF(w) \/ Recover(w) \/ Done(w)

NextCtx ==
    \/ CtxEntry
    \/ CtxDeadline
    \/ CtxInnerDone
    \/ CtxReturn
    \/ All
    \/ ForEntry
    \/ WgAdd
    \/ Go
    \/ LoopEnd
    \/ Wait
    \/ \E w \in Goroutines : StartF(w)
    \/ \E w \in Goroutines : ReturnF(w)
    \/ \E w \in Goroutines : PanicF(w)
    \/ \E w \in Goroutines : Recover(w)
    \/ \E w \in Goroutines : Done(w)

SpecCtx == InitCtx /\ [][NextCtx]_vars

\* Runnable goroutines get to run; a unit's body may take forever and the
\* deadline may never come.
FairCtx ==
    /\ SpecCtx
    /\ WF_vars(CtxCaller)
    /\ WF_vars(CtxDispatch)
    /\ \A w \in Goroutines : WF_vars(CtxStep(w))

\* ================================================================ claims
Returned == pc \in {"returned", "panicked"}
Busy(w) == g[w].st \in {"task", "f", "recover", "handler", "store", "done"}
Running == {w \in Goroutines : g[w].st = "f"}
\* Under Spec a call carries at most one option: the one that is in force.
GivenOption == IF Len(opt) > 0 THEN opt[1] ELSE emptyOption

\* C1: one call of For invokes f exactly once on each index of [begin, end)
\* and on no other integer: no index is ever invoked twice, none outside the
\* range is invoked, and when For is back with its caller none was skipped.
C1_EachIndexExactlyOnce ==
    /\ \A x \in Indices : invoked[x] <= 1 /\ (x \notin Range => invoked[x] = 0)
    /\ Returned => \A x \in Range : invoked[x] = 1

C1_Witness ==
    /\ api = "For" /\ pc = "returned"
    /\ begin = 1 /\ length = 2
    /\ taskChan = "closed" /\ option.TaskCount = 1

\* C2: For never returns while a unit of its range is in progress: when For
\* is back with its caller every f(i) has been entered and left, the handler
\* call of a panicked unit has returned, and no goroutine is still inside a
\* unit.
C2_NoUnitInProgressAtReturn ==
    Returned =>
        /\ \A w \in Goroutines : ~Busy(w)
        /\ \A x \in Range :
              /\ invoked[x] >= 1
              /\ (unitPanics(x) /\ panicHandle(rev, opt, option) # NilHandle)
                    => Len(handled[x]) >= 1

C2_Witness ==
    /\ api = "For" /\ pc = "returned" /\ length = 2
    /\ panics # {} /\ panicHandle(rev, opt, option) # NilHandle

\* C3: with TaskCount = K > 0 at most K invocations of f are in progress at
\* any instant of the call.
C3_AtMostKRunning ==
    (api = "For" /\ GivenOption.TaskCount > 0)
        => Cardinality(Running) <= GivenOption.TaskCount

C3_Witness ==
    /\ api = "For" /\ GivenOption.TaskCount = 1 /\ length = 2
    /\ Cardinality(Running) = 1
    /\ pc = "loop" /\ i = begin + 1
    /\ panics # {}

\* The calls over nothing: an empty range, collection or task list.
EmptyCall ==
    \/ api = "For" /\ end <= begin
    \/ api = "All" /\ n = 0
    \/ api = "ForEach" /\ coll \in {"slice", "array", "map"} /\ n = 0

\* C4: a call of For with end <= begin, of ForEach on an empty slice, array
\* or map, and of All with no task invokes nothing, starts no goroutine,
\* creates neither channel nor WaitGroup, raises nothing, and goes straight
\* to its return.
C4_EmptyRangeIsNoOp ==
    EmptyCall =>
        /\ \A x \in Indices : invoked[x] = 0 /\ handled[x] = <<>>
        /\ \A w \in Goroutines : g[w].st = "none"
        /\ spawned = 0 /\ taskChan = "none" /\ ~wgMade
        /\ raised = NilValue
        /\ pc \in {"call", "All", "ForEach", "ForEachSlice", "ForEachMap", "returned"}
        /\ (pc # "returned" => ENABLED Next)

C4_Witness ==
    /\ api = "For" /\ end < begin /\ pc = "returned" /\ Len(opt) > 0

\* C5: with a PanicHandle registered, a panic of f(i) with value v is handed
\* to that handler as exactly v, once, and to nobody else; For does not panic
\* to its caller; and every other index has been invoked and has completed
\* when For returns.
C5_HandlerIsolatesPanic ==
    (api = "For" /\ GivenOption.PanicHandle # NilHandle) =>
        /\ pc # "panicked" /\ raised = NilValue
        /\ \A x \in Indices :
              \/ handled[x] = <<>>
              \/ x \in panics /\ handled[x] = <<<<GivenOption.PanicHandle, PanicValue(x)>>>>
        /\ pc = "returned" =>
              /\ \A w \in Goroutines : ~Busy(w)
              /\ \A x \in Range :
                    /\ invoked[x] = 1
                    /\ x \in panics => handled[x] # <<>>

C5_Witness ==
    /\ api = "For" /\ pc = "returned" /\ length = 2
    /\ GivenOption.PanicHandle # NilHandle
    /\ panics # {} /\ panics # Range
    /\ GivenOption.TaskCount = 1

\* C6: in the revisions without lastError, with no PanicHandle and
\* TaskCount = 0, a panic of f(i) is swallowed: For (and so All) never panics
\* to its caller, no handler is called, the call never gets stuck, and when
\* it returns every index has been invoked and has completed.
C6_PanicSwallowedWithoutHandler ==
    (api \in {"For", "All"} /\ rev # "r1" /\ GivenOption = emptyOption) =>
        /\ pc # "panicked" /\ raised = NilValue /\ lastError = NilValue
        /\ \A x \in Indices : handled[x] = <<>>
        /\ (pc # "returned" => ENABLED Next)
        /\ pc = "returned" =>
              /\ \A w \in Goroutines : ~Busy(w)
              /\ \A x \in Range : invoked[x] = 1

C6_Witness ==
    /\ api = "All" /\ pc = "returned" /\ n = 2
    /\ panics # {} /\ panics # Range

\* C7: in the revision with lastError, without a PanicHandle and with a unit
\* that panics, For panics to its caller with the value one failing unit
\* raised, after every unit has finished; with a handler, or without a
\* failing unit, For returns normally.
C7_ReraisesLastFailure ==
    (api = "For" /\ rev = "r1" /\ length > 0) =>
        /\ pc = "panicked" =>
              /\ GivenOption.PanicHandle = NilHandle /\ panics # {}
              /\ raised \in {PanicValue(x) : x \in panics}
              /\ \A w \in Goroutines : ~Busy(w)
              /\ \A x \in Range : invoked[x] = 1
        /\ pc = "returned" => (GivenOption.PanicHandle # NilHandle \/ panics = {})

\* The handler h is the one every handler call of the run went to, and c > 0
\* is the number of workers the run started.
HandlerUsed(h) ==
    \A x \in Indices :
        /\ \A k \in 1..Len(handled[x]) : handled[x][k][1] = h
        /\ h = NilHandle => handled[x] = <<>>
        /\ (h # NilHandle /\ x \in panics /\ Returned) => handled[x] # <<>>
WorkersUsed(c) ==
    c > 0 => /\ spawned <= c
             /\ pc \notin {"call", "spawn"} => spawned = c

\* C8 as stated: with several options only opt[0] counts. The handler that
\* is called is opt[0].PanicHandle (none when that is nil), and with
\* opt[0].TaskCount > 0 exactly that many workers are started.
C8_OnlyFirstOptionHonoured ==
    (Len(opt) > 0 /\ pc # "call") =>
        /\ option = opt[1]
        /\ HandlerUsed(opt[1].PanicHandle)
        /\ WorkersUsed(opt[1].TaskCount)

\* The last TaskCount > 0 and the last non-nil PanicHandle of an option list.
LastTaskCount(s) ==
    LET K == {k \in 1..Len(s) : s[k].TaskCount > 0}
    IN  IF K = {} THEN 0 ELSE s[CHOOSE k \in K : \A j \in K : j <= k].TaskCount
LastPanicHandle(s) ==
    LET K == {k \in 1..Len(s) : s[k].PanicHandle # NilHandle}
    IN  IF K = {} THEN NilHandle ELSE s[CHOOSE k \in K : \A j \in K : j <= k].PanicHandle

\* C8 amended: the revision documented "only the first one is valid" honours
\* opt[0] alone; the revisions that call mixinOptions merge the options field
\* by field, the last TaskCount > 0 and the last non-nil PanicHandle winning.
C8_FirstOptionOrMerge ==
    (Len(opt) > 0 /\ pc # "call") =>
        IF rev = "r3"
        THEN /\ option = opt[1]
             /\ HandlerUsed(opt[1].PanicHandle)
             /\ WorkersUsed(opt[1].TaskCount)
        ELSE /\ option = [TaskCount |-> LastTaskCount(opt),
                          PanicHandle |-> LastPanicHandle(opt)]
             /\ HandlerUsed(LastPanicHandle(opt))
             /\ WorkersUsed(LastTaskCount(opt))

C8_Witness ==
    /\ rev = "r3" /\ pc = "returned" /\ Len(opt) = 2
    /\ opt[1] = [TaskCount |-> 1, PanicHandle |-> "h1"]
    /\ opt[2] = [TaskCount |-> 2, PanicHandle |-> "h2"]
    /\ handled[0] = <<<<"h1", PanicValue(0)>>>>
    /\ spawned = 1

\* C9: a call with begin < end and TaskCount <= 0 behaves as the unbounded
\* mode: it never gets stuck before its return, and when For is back with
\* its caller f has been invoked on every index.
C9_NonPositiveTaskCountIsUnbounded ==
    (api = "For" /\ length > 0 /\ GivenOption.TaskCount <= 0) =>
        /\ (~Returned => ENABLED Next)
        /\ Returned => \A x \in Range : invoked[x] = 1

\* C10: Race with n >= 1 returns as soon as one task has finished: once some
\* task has returned or panicked Race eventually returns, whether or not any
\* other task ever finishes.
C10_RaceReturnsAfterFirstFinisher ==
    (\E k \in Goroutines : g[k].st \in {"recover", "cancel", "exit"})
        ~> (pc = "returned")

C10_Witness ==
    /\ api = "Race" /\ pc = "returned" /\ n = 2
    /\ \E k \in Goroutines : g[k].st = "f"
    /\ \E k \in Goroutines : g[k].st = "exit"

Finished(k) == g[k].st = "exit"

\* C11: Race never returns before a winner exists: once Race is past its wait
\* (running its own deferred cancel, or returned) at least one supplied task
\* has finished, returned or panicked, and has fired the signal itself.
C11_RaceNeverReturnsBeforeAWinner ==
    api = "Race" /\ pc \in {"raceCancel", "returned"}
        => \E k \in 1..n : Finished(k)

C11_Witness ==
    /\ api = "Race" /\ pc = "raceCancel" /\ n = 2
    /\ Cardinality({k \in 1..n : Finished(k)}) = 1
    /\ \E k \in 1..n : g[k].st = "task"

BodyUntouched ==
    \A k \in Goroutines :
        g[k].st = "f" => g'[k].st \in {"f", "cancel", "recover"}

\* C12: Race does not stop the losers: no task is started twice, a running task
\* body is left only by its own return or panic, every supplied task is
\* eventually started, and every task whose body has ended runs to its exit,
\* whether or not Race has returned by then.
C12_RaceDoesNotStopTheLosers ==
    /\ [](api = "Race" => \A x \in Indices : invoked[x] <= 1)
    /\ [][BodyUntouched]_vars
    /\ \A x \in 0..(MaxLen - 1) : (api = "Race" /\ x < n) ~> (invoked[x] = 1)
    /\ \A k \in Goroutines :
          (g[k].st \in {"recover", "cancel"}) ~> (g[k].st = "exit")

C12_Witness ==
    /\ api = "Race" /\ pc = "returned" /\ n = 2
    /\ Finished(1) /\ g[2].st = "cancel"
    /\ \A x \in 0..(n - 1) : invoked[x] = 1

\* C13: a panic inside a Race task is caught at that task: nothing is ever
\* raised to Race's caller, a task that panicked and exited has fired the
\* signal, and once a task has panicked Race returns normally.
C13_RacePanicCaughtAtTheTask ==
    /\ [](api = "Race" => /\ raised = NilValue
                          /\ pc # "panicked"
                          /\ \A k \in 1..n :
                                (k - 1) \in panics /\ Finished(k) => ctxDone)
    /\ (\E k \in Goroutines : g[k].st = "recover") ~> (pc = "returned")

C13_Witness ==
    /\ api = "Race" /\ pc = "returned" /\ n = 2 /\ panics = {0, 1}
    /\ raised = NilValue
    /\ Finished(1) /\ g[2].st = "f"

\* C14: All(t1, ..., tn) invokes every task exactly once and returns only
\* after every task has returned or panicked: no task is ever invoked twice,
\* and when All is back every task has been invoked once and none is running.
C14_AllRunsEveryTaskThenReturns ==
    api = "All" =>
        /\ \A x \in Indices : invoked[x] <= 1
        /\ Returned => /\ pc = "returned"
                       /\ \A x \in 0..(n - 1) : invoked[x] = 1
                       /\ \A w \in Goroutines : ~Busy(w)

C14_Witness ==
    /\ api = "All" /\ pc = "returned" /\ n = 2 /\ panics = {1}
    /\ \A x \in 0..(n - 1) : invoked[x] = 1

IsCollection == coll \in {"slice", "array", "map"}
TypeMismatch == api = "ForEach" /\ IsCollection /\ n > 0 /\ callMismatch(cb)
NothingDispatched ==
    /\ \A x \in Indices : invoked[x] = 0
    /\ \A w \in Goroutines : g[w] = Idle

\* C18 (as stated): ForEach on a non-empty collection with a callback whose
\* parameter types cannot take what it would be handed panics to the caller
\* before any unit is dispatched, the callback being invoked zero times.
C18_MismatchRejectedBeforeDispatch ==
    TypeMismatch =>
        /\ NothingDispatched
        /\ \A x \in Indices : received[x] = <<>>
        /\ Returned => pc = "panicked" /\ raised # NilValue

\* C18 (amended): such a call never invokes the callback. Where ForEachSlice /
\* ForEachMap check the parameter types (part_005, parallel.go:340-466) it
\* panics to the caller before any unit is dispatched and before any handler
\* is called. Where they do not (parallel.go:106-194) every unit is
\* dispatched and fails inside reflect's Call; with a PanicHandle among the
\* options each failure goes to the handler, once per unit, and ForEach
\* returns normally; without one the failure is re-raised to the caller after
\* all units have finished.
C18_MismatchNeverRunsCallback ==
    TypeMismatch =>
        /\ \A x \in Indices : received[x] = <<>>
        /\ rev # "r1" =>
              /\ NothingDispatched
              /\ \A x \in Indices : handled[x] = <<>>
              /\ Returned => /\ pc = "panicked"
                             /\ raised \notin {NilValue, Message("reflect: Call")}
        /\ rev = "r1" /\ Returned =>
              /\ \A x \in 0..(n - 1) : invoked[x] = 1
              /\ IF GivenOption.PanicHandle = NilHandle
                 THEN /\ pc = "panicked"
                      /\ raised = Message("reflect: Call")
                      /\ \A x \in Indices : handled[x] = <<>>
                 ELSE /\ pc = "returned"
                      /\ raised = NilValue
                      /\ \A x \in 0..(n - 1) :
                            handled[x] = <<<<GivenOption.PanicHandle,
                                             Message("reflect: Call")>>>>

C18_Witness ==
    /\ TypeMismatch /\ pc = "returned" /\ rev = "r1" /\ n = 2
    /\ cb.argc = 2 /\ cb.in0ok /\ ~cb.in1ok
    /\ GivenOption.PanicHandle = "h1"
    /\ \A x \in 0..(n - 1) :
          invoked[x] = 1 /\ received[x] = <<>> /\ handled[x] # <<>>

\* C19: an arity or shape mismatch is rejected with a failure: ForEach with a
\* callback of more than two parameters, or on a value that is not a slice,
\* array or map, ends in a panic to the caller, never in a normal return.
C19_ShapeMismatchRaises ==
    api = "ForEach" /\ Returned /\ (~IsCollection \/ (cb.argc > 2 /\ n > 0))
        => pc = "panicked"

RangeArgs(x) ==
    LET pair == IF coll = "map" THEN << <<"key", x>>, <<"value", x>> >>
                ELSE << <<"int", x>>, <<"elem", x>> >>
    IN  SubSeq(pair, 1, cb.argc)

\* C20: ForEach iterates like range. With a callback of arity 0, 1 or 2 whose
\* parameters take what they are handed, the callback is never invoked twice
\* for an index, ForEach raises nothing unless the callback itself panics,
\* and when ForEach is back the callback has been invoked exactly once per
\* index i of the slice or array with i and the element at i, once per key of
\* the map with the key and its value, cut to the callback's arity.
C20_ForEachIteratesLikeRange ==
    api = "ForEach" /\ IsCollection /\ cb.argc <= 2 /\ ~callMismatch(cb) =>
        /\ \A x \in Indices : Len(received[x]) <= 1
        /\ Returned =>
              /\ pc = "panicked" =>
                    rev = "r1" /\ panics # {} /\ GivenOption.PanicHandle = NilHandle
              /\ \A x \in Indices :
                    received[x] = IF x \in 0..(n - 1) THEN <<RangeArgs(x)>> ELSE <<>>

C20_Witness ==
    /\ api = "ForEach" /\ coll = "map" /\ cb.argc = 2 /\ n = 2 /\ pc = "returned"
    /\ received[1] = << << <<"key", 1>>, <<"value", 1>> >> >>

UnitsComplete ==
    /\ pc = "returned"
    /\ \A x \in Range : invoked[x] = 1
    /\ \A w \in Goroutines : ~Busy(w)

\* C15: ForWithContext / AllWithContext raises nothing; once the caller's
\* deadline has elapsed the waiting call returns, whether or not its units ever
\* finish; and a call that is back while its range has not finished finds the
\* caller's context reporting the deadline.
C15_ReturnsAtDeadline ==
    /\ [](api \in CtxApis => raised = NilValue /\ pc # "panicked")
    /\ [](outer = "returned" /\ ~UnitsComplete => ctxErr = "deadline")
    /\ (outer = "wait" /\ ctxErr = "deadline") ~> (outer = "returned")

C15_Witness ==
    /\ api = "ForWithContext" /\ outer = "returned" /\ ctxErr = "deadline"
    /\ length = 2
    /\ \A x \in Range : \E w \in Goroutines : g[w] = [st |-> "f", idx |-> x]

OnlyTheDeadlineFires == ctxErr' # ctxErr => CtxDeadline

\* C16: when all units complete before the caller's context fires, the call
\* returns once they have completed and leaves the caller's context un-fired:
\* a call that is back with ctx.Err() nil has every unit completed, a finished
\* range leads to the return, and nothing but the deadline ever changes the
\* caller's context.
C16_CallerContextLeftUnfired ==
    /\ [](outer = "returned" /\ ctxErr = "nil" => UnitsComplete)
    /\ [][OnlyTheDeadlineFires]_vars
    /\ (api \in CtxApis /\ pc = "returned") ~> (outer = "returned")

C16_Witness ==
    /\ api = "AllWithContext" /\ outer = "returned" /\ ctxErr = "nil" /\ n = 2
    /\ ctxDone /\ UnitsComplete

UnitUntouched ==
    \A w \in Goroutines :
        g[w].st = "f" => g'[w].st \in {"f", "done", "recover"}

\* C17: cancellation is non-preemptive. A running unit body is left only by
\* its own return or panic; after the call has returned early each unit still
\* running can go on, and each unit whose body ends after that runs to its end.
C17_CancellationIsNonPreemptive ==
    /\ [][UnitUntouched]_vars
    /\ [](outer = "returned" =>
            \A w \in Goroutines :
                g[w].st = "f" => ENABLED (ReturnF(w) \/ PanicF(w)))
    /\ \A w \in Goroutines :
          (outer = "returned" /\ g[w].st \in {"recover", "done"}) ~> (g[w].st = "exit")

C17_Witness ==
    /\ api = "ForWithContext" /\ outer = "returned" /\ ctxErr = "deadline"
    /\ pc # "returned"
    /\ \E w \in Goroutines : g[w].st = "done"
    /\ \E w \in Goroutines : g[w].st = "f"

EntersBody(w) == g[w].st # "f" /\ g'[w].st = "f"
ByItsWorker(w) ==
    /\ g[w].st = "task"
    /\ invoked' = [invoked EXCEPT ![g[w].idx] = @ + 1]
    /\ pc' = pc /\ i' = i

\* C21: the scheduler never runs a unit body inline. In both modes a body is
\* entered only in a step of the goroutine that was handed the index, a step
\* that leaves the caller where it is; f is invoked in no other step; and
\* while a body runs the caller is dispatching or waiting.
C21_NeverRunsAUnitInline ==
    /\ [][\A w \in Goroutines : EntersBody(w) => ByItsWorker(w)]_vars
    /\ [][invoked' # invoked => \E w \in Goroutines : EntersBody(w)]_vars
    /\ [](api \in {"For", "All", "ForEach"} /\ Running # {}
            => pc \in {"loop", "wait"})

C21_Witness ==
    /\ api = "For" /\ pc = "loop" /\ taskChan = "none" /\ length = 2
    /\ \E w \in Goroutines : g[w] = [st |-> "f", idx |-> begin]
    /\ i = begin + 1

WritingLastError == {w \in Goroutines : g[w].st = "store"}

\* C22: the workers of one For call share no mutable state besides the barrier
\* and the work queue: no two workers are ever inside a write of a variable
\* of For at the same time, in any revision.
C22_NoSharedStateBesidesBarrierAndQueue ==
    api = "For" => Cardinality(WritingLastError) <= 1

PoolSize == workerCount(rev, chooseOption(rev, opt), length)
BoundedMode ==
    /\ api = "For" /\ length >= 1
    /\ usesPool(rev, opt, chooseOption(rev, opt))
    /\ PoolSize >= 1

\* C23: in bounded mode with K >= 1 workers and L >= 1 indices For always
\* terminates when every f(i) terminates: under fair scheduling For comes
\* back to its caller, so its dispatch loop never blocks forever, also when
\* units panic, because no worker ends while the queue is open.
C23_BoundedForTerminates ==
    /\ (BoundedMode /\ pc = "call") ~> Returned
    /\ [](BoundedMode /\ taskChan = "open"
            => \A w \in Goroutines : g[w].st # "exit")

C23_Witness ==
    /\ BoundedMode /\ pc = "returned" /\ PoolSize = 1 /\ length = 2
    /\ panics = {begin}
    /\ invoked[begin + 1] = 1

\* C24: in bounded mode exactly K workers are started, all before the first
\* index is dispatched; the queue is closed only after the last index was
\* handed off and the barrier released; and once For has returned or
\* re-raised, every one of the K workers eventually exits.
C24_PoolStartedBeforeDispatchAndReleased ==
    /\ [](BoundedMode =>
            /\ spawned <= PoolSize
            /\ pc \notin {"call", "spawn"} => spawned = PoolSize
            /\ \A w \in Goroutines : w > PoolSize => g[w] = Idle
            /\ taskChan = "closed" => i = end /\ wg = 0)
    /\ (BoundedMode /\ Returned)
          ~> (\A w \in Goroutines : w <= PoolSize => g[w].st = "exit")

C24_Witness ==
    /\ BoundedMode /\ Returned /\ PoolSize = 2 /\ length = 1
    /\ invoked[begin] = 1
    /\ \A w \in 1..2 : g[w].st = "exit"

Handed(x) == invoked[x] >= 1 \/ \E w \in Goroutines : g[w].idx = x
UnitOver(x) == invoked[x] = 1 /\ \A w \in Goroutines : g[w].idx # x

\* C25 (as stated): in bounded mode index i is received by a worker before
\* index i+1 is offered, so f(i) has started by the time i+1 is handed off;
\* with one worker each unit finishes before the next starts.
C25_StartsInHandOffOrder ==
    BoundedMode =>
        /\ \A x \in Range : Handed(x) <=> x < i
        /\ \A x \in Range : x + 1 < i => invoked[x] >= 1
        /\ PoolSize = 1 =>
              \A x, y \in Range : invoked[x] >= 1 /\ y < x => UnitOver(y)

\* C25 (amended): in bounded mode the indices are handed to the workers in
\* ascending order, index i being taken by a worker before i+1 is offered:
\* at any moment the indices handed off are exactly those below the loop's
\* index. With one worker each unit is over before the next starts. With more
\* workers the hand-off order does not order the starts.
C25_HandedOffInAscendingOrder ==
    BoundedMode =>
        /\ \A x \in Range : Handed(x) <=> x < i
        /\ PoolSize = 1 =>
              \A x, y \in Range : invoked[x] >= 1 /\ y < x => UnitOver(y)

C25_Witness ==
    /\ BoundedMode /\ PoolSize = 2 /\ length = 2 /\ pc = "loop" /\ i = end
    /\ invoked[begin] = 0 /\ invoked[begin + 1] = 1

Unfinished == {x \in Range : ~UnitOver(x)}

\* C26: barrier accounting. From wg.Add on, the counter equals the number of
\* indices of the range whose unit has not finished; it starts at
\* end - begin, goes down by one at a time, once per unit whether the unit
\* returned or panicked, and is never negative, so it reaches zero once.
C26_BarrierCountsUnfinishedUnits ==
    /\ [](wgMade => wg = Cardinality(Unfinished) /\ wg >= 0)
    /\ [][~wgMade /\ wgMade' => wg' = end - begin]_vars
    /\ [][wgMade => wg' \in {wg, wg - 1} /\ wgMade']_vars
    /\ [][wgMade /\ wg' # wg =>
            \E x \in Range : Unfinished' = Unfinished \ {x} /\ x \in Unfinished]_vars

C26_Witness ==
    /\ api = "For" /\ wgMade /\ wg = 0 /\ length = 2 /\ pc = "wait"
    /\ panics = {begin} /\ taskChan = "none"

HandlerCalls ==
    Cardinality({p \in Indices \X (1..(MaxLen + 1)) : p[2] <= Len(handled[p[1]])})

\* C27: the PanicHandle is invoked exactly once for each unit that panics and
\* never for a unit that returns normally: no unit has more than one handler
\* call, a unit that returns has none, a panicking unit that is over has had
\* exactly one, with its own value, and when For is back the number of handler
\* calls equals the number of failing units.
C27_HandlerOncePerFailingUnit ==
    (api = "For" /\ GivenOption.PanicHandle # NilHandle) =>
        /\ \A x \in Indices :
              /\ Len(handled[x]) <= 1
              /\ x \notin panics => handled[x] = <<>>
              /\ x \in panics /\ UnitOver(x) =>
                    handled[x] = <<<<GivenOption.PanicHandle, PanicValue(x)>>>>
        /\ Returned => HandlerCalls = Cardinality(panics)

C27_Witness ==
    /\ api = "For" /\ GivenOption.PanicHandle # NilHandle
    /\ length = 2 /\ panics = Range
    /\ \A w \in 1..2 : g[w].st = "handler"
    /\ HandlerCalls = 2

\* C28: Race terminates for every finite list of terminating tasks, the empty
\* list included: every call of Race eventually returns.
C28_RaceAlwaysReturns ==
    (api = "Race" /\ pc = "Race") ~> (pc = "returned")
====
